---- MODULE Spec2Model ----
(***************************************************************************)
(* A model of SlimDeque (src/src/data-oriented-slim-deque.ts): a deque     *)
(* stored in a cyclic buffer that is reallocated, with its items moved to  *)
(* the low indices, when a push finds it full.                             *)
(*                                                                         *)
(* The buffer is a function on 0 .. capacity-1, as the source's array is.  *)
(* The capacity increment factor is an IEEE-754 double in the source; the  *)
(* model writes a factor as a number of FactorScale-ths, converts it to    *)
(* the nearest double and multiplies as the double multiplication does.    *)
(***************************************************************************)
EXTENDS Integers, Sequences, FiniteSets, TLC

\* ------------------------------------------------------------------------
\* Bounds of the model
\* ------------------------------------------------------------------------
MaxInitialCapacity == 3
MaxCapacity == 4
MaxItem == 2
MaxGrowthCapacity == 100
MaxConstructCapacity == 3
MaxScenarioPushes == 10

\* ------------------------------------------------------------------------
\* Program constants
\* ------------------------------------------------------------------------
DEFAULT_SLIM_DEQUE_INITIAL_CAPACITY == 128
MIN_ALLOWED_CAPACITY_INCREMENT_FACTOR == 11000
MAX_ALLOWED_CAPACITY_INCREMENT_FACTOR == 20000
DEFAULT_SLIM_DEQUE_CAPACITY_INCREMENT_FACTOR == 15000
\* A factor f of the source is written f * FactorScale in the model.
FactorScale == 10000
\* The number of significand bits of a double, and the limbs they are kept in.
SignificandBits == 53
LimbBits == 18
Limb == 2 ^ LimbBits

\* The empty slot of the buffer (undefined in the source); items are 1 .. MaxItem.
Undefined == 0
Items == 1 .. MaxItem

\* ------------------------------------------------------------------------
\* IEEE-754 double arithmetic, as far as Math.ceil(currCapacity * factor)
\* needs it.  A double x > 0 is [sig, shift]: sig = <<l0, l1, l2>> is the
\* natural number l2 * Limb^2 + l1 * Limb + l0 and x = sig * 2^shift.
\* ------------------------------------------------------------------------
\* The length of n in bits, for 0 < n < 2^30.
BitLength(n) == CHOOSE k \in 1 .. 30 : 2 ^ (k - 1) <= n /\ n < 2 ^ k

\* One step of the long division by d: the next `bits` quotient bits.
DivStep(r, d, bits) == [q |-> (r * 2 ^ bits) \div d, r |-> (r * 2 ^ bits) % d]

\* sig + inc (inc is 0 or 1), with the carries between the limbs.
AddToLimbs(sig, inc) ==
    LET s0 == sig[1] + inc
        c0 == s0 \div Limb
        s1 == sig[2] + c0
        c1 == s1 \div Limb
    IN  <<s0 % Limb, s1 % Limb, sig[3] + c1>>

\* The double nearest to num / den (ties to even), for 1 <= num / den < 4: the
\* factors a deque can be constructed with lie in [1.1, 2].  The significand
\* has SignificandBits bits: 1 + 16 in the top limb and 18 in each other limb.
DoubleOf(num, den) ==
    LET e  == IF num >= 2 * den THEN 1 ELSE 0
        d  == den * 2 ^ e
        s1 == DivStep(num % d, d, 8)
        s2 == DivStep(s1.r, d, 8)
        s3 == DivStep(s2.r, d, 9)
        s4 == DivStep(s3.r, d, 9)
        s5 == DivStep(s4.r, d, 9)
        s6 == DivStep(s5.r, d, 9)
        l2 == (num \div d) * 2 ^ 16 + s1.q * 2 ^ 8 + s2.q
        l1 == s3.q * 2 ^ 9 + s4.q
        l0 == s5.q * 2 ^ 9 + s6.q
        up == 2 * s6.r > d \/ (2 * s6.r = d /\ l0 % 2 = 1)
    IN  [sig   |-> AddToLimbs(<<l0, l1, l2>>, IF up THEN 1 ELSE 0),
         shift |-> e - (SignificandBits - 1)]

\* The double product c * x of a natural number 0 < c < 2^12 and a double x
\* of SignificandBits bits: the exact product, rounded to SignificandBits
\* bits, to nearest, ties to even.
DoubleMul(c, x) ==
    LET p0   == c * x.sig[1]
        p1   == c * x.sig[2] + p0 \div Limb
        l0   == p0 % Limb
        l1   == p1 % Limb
        l2   == c * x.sig[3] + p1 \div Limb
        drop == BitLength(l2) + 2 * LimbBits - SignificandBits
        unit == 2 ^ drop
        kept == l0 \div unit
        rest == l0 % unit
        up   == drop > 0 /\ (2 * rest > unit \/ (2 * rest = unit /\ kept % 2 = 1))
    IN  [sig   |-> AddToLimbs(<<kept * unit, l1, l2>>, IF up THEN unit ELSE 0),
         shift |-> x.shift]

\* Math.floor in place of Math.ceil.
MathFloor(x) == x.sig[3] \div 2 ^ ((-x.shift) - 2 * LimbBits)

\* Math.ceil of a double x >= 1 with -52 <= shift <= -36, as an integer.
MathCeil(x) ==
    LET k == (-x.shift) - 2 * LimbBits
        whole == x.sig[3] \div 2 ^ k
        fraction == x.sig[3] % 2 ^ k # 0 \/ x.sig[2] # 0 \/ x.sig[1] # 0
    IN  IF fraction THEN whole + 1 ELSE whole

\* A growth that ignores the factor and doubles.
newCapacityDoubling(currCapacity, factor) == 2 * currCapacity

\* A growth that uses the default factor whatever factor was given.
newCapacityDefaultFactor(currCapacity, factor) ==
    MathCeil(DoubleMul(currCapacity,
                       DoubleOf(DEFAULT_SLIM_DEQUE_CAPACITY_INCREMENT_FACTOR,
                                FactorScale)))

\* A growth that rounds the product down and adds one slot.
newCapacityFloorPlusOne(currCapacity, factor) ==
    MathFloor(DoubleMul(currCapacity, DoubleOf(factor, FactorScale))) + 1

\* Math.ceil(currCapacity * this._capacityIncrementFactor)
newCapacity(currCapacity, factor) ==
    MathCeil(DoubleMul(currCapacity, DoubleOf(factor, FactorScale)))

\* ------------------------------------------------------------------------
\* The deque: the fields of a SlimDeque
\* ------------------------------------------------------------------------
VARIABLES
    cyclicBuffer,                 \* _cyclicBuffer: [0 .. capacity-1 -> item or Undefined]
    frontIndex,                   \* _frontIndex
    size,                         \* _size
    numberOfCapacityIncrements,   \* _numberOfCapacityIncrements
    capacityIncrementFactor,      \* _capacityIncrementFactor, in FactorScale-ths
    initialCapacity,              \* the constructor's first argument
    lastOp,                       \* the public member called last
    argument,                     \* the item it was called with (Undefined if none)
    returned,                     \* the item or number it returned (Undefined if none)
    returnedBoolean,              \* the boolean it returned (FALSE if none)
    threw,                        \* whether it threw an Error
    snapshot,                     \* the array the last getSnapshot() returned
    abstract,                     \* the sequence of un-popped pushes, front first
    fullPushes,                   \* pushes made so far while size = capacity
    fresh,                        \* a deque constructed with the capacity this one
                                  \* had when it was constructed or last cleared,
                                  \* and called as this one was since then
    freshCall,                    \* what the last call left behind on `fresh`
    running                       \* the call in progress and the position in its
                                  \* loop: pc, op, the item pushed, the size at
                                  \* the call, itemsTraversed, currentDequeIndex,
                                  \* what the callback has written (out), the
                                  \* number of callback / popFront calls made,
                                  \* and the deque as it was before the push
                                  \* of a push-then-pop pair (before)

dequeVars == <<cyclicBuffer, frontIndex, size, numberOfCapacityIncrements,
               capacityIncrementFactor>>
vars == <<cyclicBuffer, frontIndex, size, numberOfCapacityIncrements,
          capacityIncrementFactor, initialCapacity, lastOp, argument, returned,
          returnedBoolean, threw, snapshot, abstract, fullPushes, fresh,
          freshCall, running>>

\* The deque object as one value.
Self == [cyclicBuffer |-> cyclicBuffer, frontIndex |-> frontIndex, size |-> size,
         numberOfCapacityIncrements |-> numberOfCapacityIncrements,
         capacityIncrementFactor |-> capacityIncrementFactor]

\* new Array(n).fill(undefined)
NewArray(n) == [i \in 0 .. n - 1 |-> Undefined]

\* array.length
Length(array) == Cardinality(DOMAIN array)

\* A constructor that allocates one slot more than it was asked for.
constructorExtraSlot(capacity0, factor) ==
    [cyclicBuffer |-> NewArray(capacity0 + 1), frontIndex |-> 0, size |-> 0,
     numberOfCapacityIncrements |-> 0, capacityIncrementFactor |-> factor]

\* The object the constructor leaves behind for valid arguments.
constructor(capacity0, factor) ==
    [cyclicBuffer |-> NewArray(capacity0), frontIndex |-> 0, size |-> 0,
     numberOfCapacityIncrements |-> 0, capacityIncrementFactor |-> factor]

\* The getters size, isEmpty, capacity, numberOfCapacityIncrements.
getSize(d) == d.size
isEmpty(d) == d.size = 0
capacity(d) == Length(d.cyclicBuffer)
getNumberOfCapacityIncrements(d) == d.numberOfCapacityIncrements

\* A fix that moves a negative candidate to slot 0 instead of wrapping it.
fixIndexClamping(d, candidateIndex) ==
    IF candidateIndex >= Length(d.cyclicBuffer)
    THEN candidateIndex - Length(d.cyclicBuffer)
    ELSE IF candidateIndex < 0
    THEN 0
    ELSE candidateIndex

fixIndexIfNecessary(d, candidateIndex) ==
    IF candidateIndex >= Length(d.cyclicBuffer)
    THEN candidateIndex - Length(d.cyclicBuffer)
    ELSE IF candidateIndex < 0
    THEN candidateIndex + Length(d.cyclicBuffer)
    ELSE candidateIndex

\* Index helpers that are off by one.
calculateNewBackIndexOffByOne(d) ==
    fixIndexIfNecessary(d, d.frontIndex + d.size + 1)
calculateCurrentBackIndexOffByOne(d) ==
    fixIndexIfNecessary(d, d.frontIndex + d.size)

\* A candidate for the new front index that is two slots back.
newFrontIndexCandidateTwoBack(d) == d.frontIndex - 2

\* The candidate indices the helpers pass to _fixIndexIfNecessary.
newBackIndexCandidate(d) == d.frontIndex + d.size
currentBackIndexCandidate(d) == d.frontIndex + d.size - 1
newFrontIndexCandidate(d) == d.frontIndex - 1

calculateNewBackIndex(d) == fixIndexIfNecessary(d, newBackIndexCandidate(d))
calculateCurrentBackIndex(d) ==
    fixIndexIfNecessary(d, currentBackIndexCandidate(d))
calculateNewFrontIndex(d) == fixIndexIfNecessary(d, newFrontIndexCandidate(d))

\* The loop of _traverseFromFrontToBack: the sequence of indices the callback
\* is invoked with, in order.
\* A loop condition that lets the loop run once more.
traverseContinuesOnceMore(d, itemsTraversed) == itemsTraversed <= d.size

\* The loop condition: while (itemsTraversed < this._size)
traverseContinues(d, itemsTraversed) == itemsTraversed < d.size

RECURSIVE traverseLoop(_, _, _)
traverseLoop(d, itemsTraversed, currentDequeIndex) ==
    IF traverseContinues(d, itemsTraversed)
    THEN <<currentDequeIndex>> \o
         traverseLoop(d, itemsTraversed + 1,
                      IF currentDequeIndex + 1 = Length(d.cyclicBuffer)
                      THEN 0 ELSE currentDequeIndex + 1)
    ELSE << >>

traverseFromFrontToBack(d) == traverseLoop(d, 0, d.frontIndex)

\* A getSnapshot that copies the buffer slot by slot, empty slots included.
getSnapshotWholeBuffer(d) ==
    [k \in 1 .. Length(d.cyclicBuffer) |-> d.cyclicBuffer[k - 1]]

\* getSnapshot(): an array of d.size slots; the callback writes the visited
\* buffer slot at snapshotIndex++.  A slot never written stays Undefined.
getSnapshot(d) ==
    LET visited == traverseFromFrontToBack(d)
    IN  [k \in 1 .. d.size |->
            IF k <= Len(visited) THEN d.cyclicBuffer[visited[k]] ELSE Undefined]

\* A growth that copies every item to the index it had in the old buffer.
moveItemKeepIndex(st, currentIndex) ==
    [new  |-> [st.new EXCEPT ![currentIndex] = st.old[currentIndex]],
     old  |-> [st.old EXCEPT ![currentIndex] = Undefined],
     last |-> st.last + 1]

\* The callback of _increaseCapacityIfNecessary: st = [new, old, last] are
\* newCyclicBuffer, the old buffer and newBufferLastOccupiedIndex.
moveItem(st, currentIndex) ==
    [new  |-> [st.new EXCEPT ![st.last] = st.old[currentIndex]],
     old  |-> [st.old EXCEPT ![currentIndex] = Undefined],
     last |-> st.last + 1]

\* The callback applied to the indices visited, in order: the callback has
\* been invoked st.last times so far (it is what increments st.last).
RECURSIVE moveItems(_, _)
moveItems(st, visited) ==
    IF st.last = Len(visited) THEN st
    ELSE moveItems(moveItem(st, visited[st.last + 1]), visited)

\* A growth guard that is off by one (size <= currCapacity): it never grows.
increaseCapacityNever(d) == d

\* A growth that already happens when the push is about to fill the buffer.
increaseCapacityEarly(d) ==
    IF d.size + 1 < Length(d.cyclicBuffer)
    THEN d
    ELSE LET newCap == newCapacity(Length(d.cyclicBuffer),
                                   d.capacityIncrementFactor)
         IN  [d EXCEPT !.cyclicBuffer =
                           [i \in 0 .. newCap - 1 |->
                               IF i < d.size
                               THEN d.cyclicBuffer[(d.frontIndex + i)
                                                   % Length(d.cyclicBuffer)]
                               ELSE Undefined],
                       !.frontIndex = 0,
                       !.numberOfCapacityIncrements = @ + 1]

\* A growth that leaves _frontIndex where it was in the old buffer.
increaseCapacityKeepFrontIndex(d) ==
    LET currCapacity == Length(d.cyclicBuffer)
    IN  IF d.size < currCapacity THEN d
        ELSE LET newCap == newCapacity(currCapacity, d.capacityIncrementFactor)
                 moved == moveItems([new |-> NewArray(newCap),
                                     old |-> d.cyclicBuffer, last |-> 0],
                                    traverseFromFrontToBack(d))
             IN  [d EXCEPT !.cyclicBuffer = moved.new,
                           !.numberOfCapacityIncrements = @ + 1]

\* A growth that does not count itself.
increaseCapacityNoCount(d) ==
    IF d.size < Length(d.cyclicBuffer) THEN d
    ELSE LET newCap == newCapacity(Length(d.cyclicBuffer),
                                   d.capacityIncrementFactor)
         IN  [d EXCEPT !.cyclicBuffer =
                           [i \in 0 .. newCap - 1 |->
                               IF i < d.size
                               THEN d.cyclicBuffer[(d.frontIndex + i)
                                                   % Length(d.cyclicBuffer)]
                               ELSE Undefined],
                       !.frontIndex = 0]

\* A growth that adds one slot whatever the factor is.
increaseCapacityByOneSlot(d) ==
    LET currCapacity == Length(d.cyclicBuffer)
    IN  IF d.size < currCapacity THEN d
        ELSE LET moved == moveItems([new |-> NewArray(currCapacity + 1),
                                     old |-> d.cyclicBuffer, last |-> 0],
                                    traverseFromFrontToBack(d))
             IN  [d EXCEPT !.frontIndex = 0,
                           !.cyclicBuffer = moved.new,
                           !.numberOfCapacityIncrements = @ + 1]

increaseCapacityIfNecessary(d) ==
    LET currCapacity == Length(d.cyclicBuffer)
    IN  IF d.size < currCapacity THEN d
        ELSE LET newCap == newCapacity(currCapacity, d.capacityIncrementFactor)
                 moved == moveItems([new |-> NewArray(newCap),
                                     old |-> d.cyclicBuffer, last |-> 0],
                                    traverseFromFrontToBack(d))
             IN  [d EXCEPT !.frontIndex = 0,
                           !.cyclicBuffer = moved.new,
                           !.numberOfCapacityIncrements = @ + 1]

\* A pushBack that writes the item over the current back item.
pushBackAtCurrentBack(d, item) ==
    LET g == increaseCapacityIfNecessary(d)
        currentBackIndex == calculateCurrentBackIndex(g)
    IN  [g EXCEPT !.cyclicBuffer[currentBackIndex] = item, !.size = @ + 1]

\* A pushBack that computes the index of the new back before the growth.
pushBackIndexBeforeGrowth(d, item) ==
    LET newBackIndex == calculateNewBackIndex(d)
        g == increaseCapacityIfNecessary(d)
    IN  [g EXCEPT !.cyclicBuffer[newBackIndex] = item, !.size = @ + 1]

pushBack(d, item) ==
    LET g == increaseCapacityIfNecessary(d)
        newBackIndex == calculateNewBackIndex(g)
    IN  [g EXCEPT !.cyclicBuffer[newBackIndex] = item, !.size = @ + 1]

\* A pushFront that writes the item but does not move _frontIndex.
pushFrontKeepIndex(d, item) ==
    LET g == increaseCapacityIfNecessary(d)
        newFrontIndex == calculateNewFrontIndex(g)
    IN  [g EXCEPT !.cyclicBuffer[newFrontIndex] = item, !.size = @ + 1]

pushFront(d, item) ==
    LET g == increaseCapacityIfNecessary(d)
        newFrontIndex == calculateNewFrontIndex(g)
    IN  [g EXCEPT !.frontIndex = newFrontIndex,
                  !.cyclicBuffer[newFrontIndex] = item, !.size = @ + 1]

\* A popBack without its emptiness check.
popBackNeverThrows(d) == FALSE

\* The guard of front, back, popFront and popBack: they throw on an empty deque.
frontThrows(d) == d.size = 0
backThrows(d) == d.size = 0
popBackThrows(d) == d.size = 0
popFrontThrows(d) == d.size = 0

\* front and back on a non-empty deque.
front(d) == d.cyclicBuffer[d.frontIndex]

\* A back that reads the slot after the last occupied one.
backAtNewIndex(d) == d.cyclicBuffer[calculateNewBackIndex(d)]

back(d) == d.cyclicBuffer[calculateCurrentBackIndex(d)]

\* A popBack that empties the slot after the back item instead of its slot.
popBackEmptyingNewBackSlot(d) ==
    LET currentBackIndex == calculateCurrentBackIndex(d)
        oldBackItem == d.cyclicBuffer[currentBackIndex]
    IN  [self   |-> [d EXCEPT !.cyclicBuffer[calculateNewBackIndex(d)] = Undefined,
                              !.size = @ - 1],
         result |-> oldBackItem]

\* A popBack that leaves the removed item in its slot.
popBackKeepItem(d) ==
    LET currentBackIndex == calculateCurrentBackIndex(d)
        oldBackItem == d.cyclicBuffer[currentBackIndex]
    IN  [self   |-> [d EXCEPT !.size = @ - 1],
         result |-> oldBackItem]

\* A popBack that moves _frontIndex back to 0 when it empties the deque.
popBackResetting(d) ==
    LET currentBackIndex == calculateCurrentBackIndex(d)
        oldBackItem == d.cyclicBuffer[currentBackIndex]
    IN  [self   |-> [d EXCEPT !.cyclicBuffer[currentBackIndex] = Undefined,
                              !.frontIndex = IF d.size = 1 THEN 0 ELSE @,
                              !.size = @ - 1],
         result |-> oldBackItem]

\* popBack / popFront on a non-empty deque: the object afterwards (self) and
\* the item returned (result).
popBack(d) ==
    LET currentBackIndex == calculateCurrentBackIndex(d)
        oldBackItem == d.cyclicBuffer[currentBackIndex]
    IN  [self   |-> [d EXCEPT !.cyclicBuffer[currentBackIndex] = Undefined,
                              !.size = @ - 1],
         result |-> oldBackItem]

\* A popFront that advances _frontIndex without wrapping it.
popFrontNoWrap(d) ==
    LET oldFrontItem == d.cyclicBuffer[d.frontIndex]
    IN  [self   |-> [d EXCEPT !.cyclicBuffer[d.frontIndex] = Undefined,
                              !.frontIndex = d.frontIndex + 1,
                              !.size = @ - 1],
         result |-> oldFrontItem]

\* A popFront that moves _frontIndex back to 0 when it empties the deque.
popFrontResetting(d) ==
    LET oldFrontItem == d.cyclicBuffer[d.frontIndex]
    IN  [self   |-> [d EXCEPT !.cyclicBuffer[d.frontIndex] = Undefined,
                              !.frontIndex =
                                  IF d.size = 1 \/ d.frontIndex + 1 = Length(d.cyclicBuffer)
                                  THEN 0 ELSE d.frontIndex + 1,
                              !.size = @ - 1],
         result |-> oldFrontItem]

\* A popFront that leaves the removed item in its slot.
popFrontKeepItem(d) ==
    LET oldFrontItem == d.cyclicBuffer[d.frontIndex]
    IN  [self   |-> [d EXCEPT !.frontIndex =
                                  IF d.frontIndex + 1 = Length(d.cyclicBuffer)
                                  THEN 0 ELSE d.frontIndex + 1,
                              !.size = @ - 1],
         result |-> oldFrontItem]

\* A popFront that empties the slot of the new front instead of the old one.
popFrontEmptyingNewFront(d) ==
    LET oldFrontItem == d.cyclicBuffer[d.frontIndex]
        newFrontIndex == IF d.frontIndex + 1 = Length(d.cyclicBuffer)
                         THEN 0 ELSE d.frontIndex + 1
    IN  [self   |-> [d EXCEPT !.cyclicBuffer[newFrontIndex] = Undefined,
                              !.frontIndex = newFrontIndex,
                              !.size = @ - 1],
         result |-> oldFrontItem]

\* A popFront that does not advance _frontIndex.
popFrontKeepIndex(d) ==
    LET oldFrontItem == d.cyclicBuffer[d.frontIndex]
    IN  [self   |-> [d EXCEPT !.cyclicBuffer[d.frontIndex] = Undefined,
                              !.size = @ - 1],
         result |-> oldFrontItem]

popFront(d) ==
    LET oldFrontItem == d.cyclicBuffer[d.frontIndex]
    IN  [self   |-> [d EXCEPT !.cyclicBuffer[d.frontIndex] = Undefined,
                              !.frontIndex =
                                  IF d.frontIndex + 1 = Length(d.cyclicBuffer)
                                  THEN 0 ELSE d.frontIndex + 1,
                              !.size = @ - 1],
         result |-> oldFrontItem]

\* clear(): popFront while not empty, then frontIndex = 0.
RECURSIVE clearLoop(_)
clearLoop(d) == IF ~isEmpty(d) THEN clearLoop(popFront(d).self) ELSE d

\* A clear that replaces the buffer by a fresh one-slot buffer.
clearReallocating(d) ==
    [constructor(1, d.capacityIncrementFactor)
        EXCEPT !.numberOfCapacityIncrements = d.numberOfCapacityIncrements]

\* A clear that also resets the count of capacity increments.
clearResettingCount(d) ==
    [clearLoop(d) EXCEPT !.frontIndex = 0, !.numberOfCapacityIncrements = 0]

\* A clear that leaves _frontIndex where the last popFront put it.
clearKeepIndex(d) == clearLoop(d)

clear(d) == [clearLoop(d) EXCEPT !.frontIndex = 0]

\* ------------------------------------------------------------------------
\* The state machine: one action per public member
\* ------------------------------------------------------------------------
\* The factors a deque is constructed with.
Factors == {MIN_ALLOWED_CAPACITY_INCREMENT_FACTOR,
            DEFAULT_SLIM_DEQUE_CAPACITY_INCREMENT_FACTOR,
            MAX_ALLOWED_CAPACITY_INCREMENT_FACTOR}

\* The deque's fields become those of d.
\* No call is in progress.
Idle == [pc |-> "idle", op |-> "none", item |-> Undefined, sizeAtCall |-> 0,
         itemsTraversed |-> 0, currentDequeIndex |-> 0, out |-> << >>,
         calls |-> 0, before |-> Undefined]

Becomes(d) ==
    /\ cyclicBuffer' = d.cyclicBuffer
    /\ frontIndex' = d.frontIndex
    /\ size' = d.size
    /\ numberOfCapacityIncrements' = d.numberOfCapacityIncrements
    /\ capacityIncrementFactor' = d.capacityIncrementFactor

\* What the call left behind: its name, its argument, the item or number (res)
\* or boolean (flag) it returned, whether it threw, the snapshot it returned.
Recorded(op, arg, res, flag, err, snap) ==
    /\ lastOp' = op
    /\ argument' = arg
    /\ returned' = res
    /\ returnedBoolean' = flag
    /\ threw' = err
    /\ snapshot' = snap

\* The same, for a call made while no caller's position is followed.
Called(op, arg, res, flag, err, snap) ==
    /\ Recorded(op, arg, res, flag, err, snap)
    /\ UNCHANGED running

\* What the same call left behind on the fresh deque.
FreshCalled(res, flag, err, snap) ==
    freshCall' = [returned |-> res, returnedBoolean |-> flag, threw |-> err,
                  snapshot |-> snap]

\* The fresh deque before any call.
NotCalled == [returned |-> Undefined, returnedBoolean |-> FALSE, threw |-> FALSE,
              snapshot |-> << >>]

Init ==
    \E capacity0 \in 1 .. MaxInitialCapacity, factor \in Factors :
        /\ cyclicBuffer = constructor(capacity0, factor).cyclicBuffer
        /\ frontIndex = constructor(capacity0, factor).frontIndex
        /\ size = constructor(capacity0, factor).size
        /\ numberOfCapacityIncrements =
               constructor(capacity0, factor).numberOfCapacityIncrements
        /\ capacityIncrementFactor =
               constructor(capacity0, factor).capacityIncrementFactor
        /\ initialCapacity = capacity0
        /\ lastOp = "constructor"
        /\ argument = Undefined
        /\ returned = Undefined
        /\ returnedBoolean = FALSE
        /\ threw = FALSE
        /\ snapshot = << >>
        /\ abstract = << >>
        /\ fullPushes = 0
        /\ fresh = constructor(capacity0, factor)
        /\ freshCall = NotCalled
        /\ running = Idle

\* The model stops growing at MaxCapacity slots.
CanPush ==
    \/ size < capacity(Self)
    \/ newCapacity(capacity(Self), capacityIncrementFactor) <= MaxCapacity

\* A call of pushBack(item) / pushFront(item); r is the position of the
\* caller after the call.
PushBackCallThen(item, r) ==
    /\ Becomes(pushBack(Self, item))
    /\ Recorded("pushBack", item, Undefined, FALSE, FALSE, << >>)
    /\ running' = r
    /\ fresh' = pushBack(fresh, item)
    /\ FreshCalled(Undefined, FALSE, FALSE, << >>)
    /\ abstract' = Append(abstract, item)
    /\ fullPushes' = IF size = capacity(Self) THEN fullPushes + 1 ELSE fullPushes
    /\ UNCHANGED initialCapacity

PushFrontCallThen(item, r) ==
    /\ Becomes(pushFront(Self, item))
    /\ Recorded("pushFront", item, Undefined, FALSE, FALSE, << >>)
    /\ running' = r
    /\ fresh' = pushFront(fresh, item)
    /\ FreshCalled(Undefined, FALSE, FALSE, << >>)
    /\ abstract' = <<item>> \o abstract
    /\ fullPushes' = IF size = capacity(Self) THEN fullPushes + 1 ELSE fullPushes
    /\ UNCHANGED initialCapacity

PushBackCall(item) == PushBackCallThen(item, running)

PushFrontCall(item) == PushFrontCallThen(item, running)

PushBack == CanPush /\ \E item \in Items : PushBackCall(item)

PushFront == CanPush /\ \E item \in Items : PushFrontCall(item)

PopBackThen(r) ==
    /\ running' = r
    /\ IF popBackThrows(Self)
       THEN /\ Recorded("popBack", Undefined, Undefined, FALSE, TRUE, << >>)
            /\ UNCHANGED <<dequeVars, abstract>>
       ELSE /\ Becomes(popBack(Self).self)
            /\ Recorded("popBack", Undefined, popBack(Self).result, FALSE,
                        FALSE, << >>)
            /\ abstract' = SubSeq(abstract, 1, Len(abstract) - 1)
    /\ IF popBackThrows(fresh)
       THEN /\ FreshCalled(Undefined, FALSE, TRUE, << >>)
            /\ UNCHANGED fresh
       ELSE /\ fresh' = popBack(fresh).self
            /\ FreshCalled(popBack(fresh).result, FALSE, FALSE, << >>)
    /\ UNCHANGED <<initialCapacity, fullPushes>>

PopBack == PopBackThen(running)

PopFrontThen(r) ==
    /\ running' = r
    /\ IF popFrontThrows(Self)
       THEN /\ Recorded("popFront", Undefined, Undefined, FALSE, TRUE, << >>)
            /\ UNCHANGED <<dequeVars, abstract>>
       ELSE /\ Becomes(popFront(Self).self)
            /\ Recorded("popFront", Undefined, popFront(Self).result, FALSE,
                        FALSE, << >>)
            /\ abstract' = Tail(abstract)
    /\ IF popFrontThrows(fresh)
       THEN /\ FreshCalled(Undefined, FALSE, TRUE, << >>)
            /\ UNCHANGED fresh
       ELSE /\ fresh' = popFront(fresh).self
            /\ FreshCalled(popFront(fresh).result, FALSE, FALSE, << >>)
    /\ UNCHANGED <<initialCapacity, fullPushes>>

PopFront == PopFrontThen(running)

Front ==
    /\ IF frontThrows(Self)
       THEN Called("front", Undefined, Undefined, FALSE, TRUE, << >>)
       ELSE Called("front", Undefined, front(Self), FALSE, FALSE, << >>)
    /\ IF frontThrows(fresh)
       THEN FreshCalled(Undefined, FALSE, TRUE, << >>)
       ELSE FreshCalled(front(fresh), FALSE, FALSE, << >>)
    /\ UNCHANGED <<dequeVars, fresh, initialCapacity, abstract, fullPushes>>

Back ==
    /\ IF backThrows(Self)
       THEN Called("back", Undefined, Undefined, FALSE, TRUE, << >>)
       ELSE Called("back", Undefined, back(Self), FALSE, FALSE, << >>)
    /\ IF backThrows(fresh)
       THEN FreshCalled(Undefined, FALSE, TRUE, << >>)
       ELSE FreshCalled(back(fresh), FALSE, FALSE, << >>)
    /\ UNCHANGED <<dequeVars, fresh, initialCapacity, abstract, fullPushes>>

\* clear(); from here on the fresh deque is one constructed with the capacity
\* the deque has now.
Clear ==
    /\ Becomes(clear(Self))
    /\ Called("clear", Undefined, Undefined, FALSE, FALSE, << >>)
    /\ fresh' = constructor(capacity(clear(Self)), capacityIncrementFactor)
    /\ FreshCalled(Undefined, FALSE, FALSE, << >>)
    /\ abstract' = << >>
    /\ UNCHANGED <<initialCapacity, fullPushes>>

GetSnapshot ==
    /\ Called("getSnapshot", Undefined, Undefined, FALSE, FALSE,
              getSnapshot(Self))
    /\ FreshCalled(Undefined, FALSE, FALSE, getSnapshot(fresh))
    /\ UNCHANGED <<dequeVars, fresh, initialCapacity, abstract, fullPushes>>

\* The getters size, isEmpty, capacity and numberOfCapacityIncrements.
GetSize ==
    /\ Called("size", Undefined, getSize(Self), FALSE, FALSE, << >>)
    /\ FreshCalled(getSize(fresh), FALSE, FALSE, << >>)
    /\ UNCHANGED <<dequeVars, fresh, initialCapacity, abstract, fullPushes>>

IsEmpty ==
    /\ Called("isEmpty", Undefined, Undefined, isEmpty(Self), FALSE, << >>)
    /\ FreshCalled(Undefined, isEmpty(fresh), FALSE, << >>)
    /\ UNCHANGED <<dequeVars, fresh, initialCapacity, abstract, fullPushes>>

GetCapacity ==
    /\ Called("capacity", Undefined, capacity(Self), FALSE, FALSE, << >>)
    /\ FreshCalled(capacity(fresh), FALSE, FALSE, << >>)
    /\ UNCHANGED <<dequeVars, fresh, initialCapacity, abstract, fullPushes>>

GetNumberOfCapacityIncrements ==
    /\ Called("numberOfCapacityIncrements", Undefined,
              getNumberOfCapacityIncrements(Self), FALSE, FALSE, << >>)
    /\ FreshCalled(getNumberOfCapacityIncrements(fresh), FALSE, FALSE, << >>)
    /\ UNCHANGED <<dequeVars, fresh, initialCapacity, abstract, fullPushes>>

Next ==
    \/ PushBack
    \/ PushFront
    \/ PopBack
    \/ PopFront
    \/ Front
    \/ Back
    \/ Clear
    \/ GetSnapshot
    \/ GetSize
    \/ IsEmpty
    \/ GetCapacity
    \/ GetNumberOfCapacityIncrements

Spec == Init /\ [][Next]_vars

\* ------------------------------------------------------------------------
\* The growth of a full deque, for capacities up to MaxGrowthCapacity: the
\* deque starts full (after initialCapacity pushes, the occupied region
\* starting at slot 0 or at the last slot) and one push makes it grow.
\* ------------------------------------------------------------------------
GrowthFactors == Factors \cup {12500, 16000, 17500}

\* The item the deque holds k-th from the front.
FillItem(k) == 1 + (k % MaxItem)

GrowthInit ==
    \E capacity0 \in 1 .. MaxGrowthCapacity, factor \in GrowthFactors :
      \E frontIndex0 \in {0, capacity0 - 1} :
        /\ cyclicBuffer = [i \in 0 .. capacity0 - 1 |->
                              FillItem((i + capacity0 - frontIndex0) % capacity0)]
        /\ frontIndex = frontIndex0
        /\ size = capacity0
        /\ numberOfCapacityIncrements = 0
        /\ capacityIncrementFactor = factor
        /\ initialCapacity = capacity0
        /\ lastOp = "pushBack"
        /\ argument = FillItem(capacity0 - 1)
        /\ returned = Undefined
        /\ returnedBoolean = FALSE
        /\ threw = FALSE
        /\ snapshot = << >>
        /\ abstract = [k \in 1 .. capacity0 |-> FillItem(k - 1)]
        /\ fullPushes = 0
        /\ fresh = [cyclicBuffer |-> [i \in 0 .. capacity0 - 1 |->
                        FillItem((i + capacity0 - frontIndex0) % capacity0)],
                    frontIndex |-> frontIndex0, size |-> capacity0,
                    numberOfCapacityIncrements |-> 0,
                    capacityIncrementFactor |-> factor]
        /\ freshCall = NotCalled
        /\ running = Idle

GrowingPushBack ==
    /\ size = capacity(Self)
    /\ numberOfCapacityIncrements = 0
    /\ \E item \in Items : PushBackCall(item)

GrowingPushFront ==
    /\ size = capacity(Self)
    /\ numberOfCapacityIncrements = 0
    /\ \E item \in Items : PushFrontCall(item)

GrowthNext == GrowingPushBack \/ GrowingPushFront

GrowthSpec == GrowthInit /\ [][GrowthNext]_vars

\* ------------------------------------------------------------------------
\* Construction: new SlimDeque(), new SlimDeque(initialCapacity) and
\* new SlimDeque(initialCapacity, capacityIncrementFactor) for arguments of
\* type number, valid or not.  A capacity argument is written in
\* CapacityScale-ths and a factor argument in FactorScale-ths; NaN is a number
\* of its own.  Ordering two such numerals orders the doubles they denote.
\* ------------------------------------------------------------------------
CapacityScale == 10

\* The number NaN (a value no capacity or factor numeral takes).
NaN == 0 - 2 ^ 30

\* a < b, a > b, a >= b and a === b on numbers: FALSE when either is NaN.
LessThan(a, b) == a # NaN /\ b # NaN /\ a < b
GreaterThan(a, b) == a # NaN /\ b # NaN /\ a > b
GreaterOrEqual(a, b) == a # NaN /\ b # NaN /\ a >= b
StrictEquals(a, b) == a # NaN /\ b # NaN /\ a = b

\* Math.floor of a number in CapacityScale-ths, in CapacityScale-ths.
FloorOfNumber(num) ==
    IF num = NaN THEN NaN ELSE (num \div CapacityScale) * CapacityScale

\* An isNaturalNumber that also accepts 0.
isNaturalNumberOrZero(num) ==
    LET floored == FloorOfNumber(num)
    IN  GreaterOrEqual(floored, 0) /\ StrictEquals(floored, num)

isNaturalNumber(num) ==
    LET floored == FloorOfNumber(num)
    IN  GreaterOrEqual(floored, 1 * CapacityScale) /\ StrictEquals(floored, num)

\* Whether _validateCapacityIncrementFactor(factor) throws.
validateCapacityIncrementFactorThrows(factor) ==
    \/ LessThan(factor, MIN_ALLOWED_CAPACITY_INCREMENT_FACTOR)
    \/ GreaterThan(factor, MAX_ALLOWED_CAPACITY_INCREMENT_FACTOR)

\* The parameters after the defaults were applied to the arguments given.
InitialCapacityOf(args) ==
    IF Len(args) >= 1 THEN args[1]
    ELSE DEFAULT_SLIM_DEQUE_INITIAL_CAPACITY * CapacityScale

CapacityIncrementFactorOf(args) ==
    IF Len(args) >= 2 THEN args[2]
    ELSE DEFAULT_SLIM_DEQUE_CAPACITY_INCREMENT_FACTOR

\* Whether new SlimDeque(...args) throws.
constructorThrows(args) ==
    \/ ~isNaturalNumber(InitialCapacityOf(args))
    \/ validateCapacityIncrementFactorThrows(CapacityIncrementFactorOf(args))

\* The capacity arguments: every multiple of 1/CapacityScale between
\* -MaxConstructCapacity and MaxConstructCapacity, and NaN.
ConstructCapacities ==
    (0 - MaxConstructCapacity * CapacityScale
        .. MaxConstructCapacity * CapacityScale) \cup {NaN}

\* The factor arguments: -5.67, 0, 1, 1.09, 1.099, 1.1, 1.1001, 1.5, 1.9999,
\* 2, 2.0001, 2.01, 40 and NaN.
ConstructFactors ==
    {0 - 56700, 0, 10000, 10900, 10990, MIN_ALLOWED_CAPACITY_INCREMENT_FACTOR,
     11001, DEFAULT_SLIM_DEQUE_CAPACITY_INCREMENT_FACTOR, 19999,
     MAX_ALLOWED_CAPACITY_INCREMENT_FACTOR, 20001, 20100, 400000, NaN}

ConstructorArguments ==
    {<< >>}
        \cup {<<c>> : c \in ConstructCapacities}
        \cup {<<c, f>> : c \in ConstructCapacities, f \in ConstructFactors}

\* No object: what there is before a construction and after one that threw.
Unconstructed ==
    [cyclicBuffer |-> NewArray(0), frontIndex |-> 0, size |-> 0,
     numberOfCapacityIncrements |-> 0, capacityIncrementFactor |-> Undefined]

ConstructInit ==
    /\ cyclicBuffer = Unconstructed.cyclicBuffer
    /\ frontIndex = Unconstructed.frontIndex
    /\ size = Unconstructed.size
    /\ numberOfCapacityIncrements = Unconstructed.numberOfCapacityIncrements
    /\ capacityIncrementFactor = Unconstructed.capacityIncrementFactor
    /\ initialCapacity = 0
    /\ lastOp = "none"
    /\ argument = << >>
    /\ returned = Undefined
    /\ returnedBoolean = FALSE
    /\ threw = FALSE
    /\ snapshot = << >>
    /\ abstract = << >>
    /\ fullPushes = 0
    /\ fresh = Unconstructed
    /\ freshCall = NotCalled
    /\ running = Idle

\* new SlimDeque(...args)
Construct ==
    \E args \in ConstructorArguments :
        LET made == IF constructorThrows(args) THEN Unconstructed
                    ELSE constructor(InitialCapacityOf(args) \div CapacityScale,
                                     CapacityIncrementFactorOf(args))
        IN  /\ Becomes(made)
            /\ Called("constructor", args, Undefined, FALSE,
                      constructorThrows(args), << >>)
            /\ initialCapacity' = capacity(made)
            /\ abstract' = << >>
            /\ fullPushes' = 0
            /\ fresh' = made
            /\ freshCall' = NotCalled

ConstructNext == Construct

ConstructSpec == ConstructInit /\ [][ConstructNext]_vars

\* ------------------------------------------------------------------------
\* Scenarios: a deque constructed with capacity 4 and factor 2, with capacity
\* 1 and factor 1.1, or with no arguments, and then given the items 1, 2, 3,
\* ... in this order, each at either end.
\* ------------------------------------------------------------------------
ScenarioConstructions ==
    {<<4, MAX_ALLOWED_CAPACITY_INCREMENT_FACTOR>>,
     <<1, MIN_ALLOWED_CAPACITY_INCREMENT_FACTOR>>,
     <<DEFAULT_SLIM_DEQUE_INITIAL_CAPACITY,
       DEFAULT_SLIM_DEQUE_CAPACITY_INCREMENT_FACTOR>>}

ScenarioInit ==
    \E args \in ScenarioConstructions :
        /\ cyclicBuffer = constructor(args[1], args[2]).cyclicBuffer
        /\ frontIndex = constructor(args[1], args[2]).frontIndex
        /\ size = constructor(args[1], args[2]).size
        /\ numberOfCapacityIncrements =
               constructor(args[1], args[2]).numberOfCapacityIncrements
        /\ capacityIncrementFactor =
               constructor(args[1], args[2]).capacityIncrementFactor
        /\ initialCapacity = args[1]
        /\ lastOp = "constructor"
        /\ argument = Undefined
        /\ returned = Undefined
        /\ returnedBoolean = FALSE
        /\ threw = FALSE
        /\ snapshot = << >>
        /\ abstract = << >>
        /\ fullPushes = 0
        /\ fresh = constructor(args[1], args[2])
        /\ freshCall = NotCalled
        /\ running = Idle

\* The next item goes to the back / to the front.
ScenarioPushBack ==
    /\ Len(abstract) < MaxScenarioPushes
    /\ PushBackCall(Len(abstract) + 1)

ScenarioPushFront ==
    /\ Len(abstract) < MaxScenarioPushes
    /\ PushFrontCall(Len(abstract) + 1)

ScenarioNext == ScenarioPushBack \/ ScenarioPushFront

ScenarioSpec == ScenarioInit /\ [][ScenarioNext]_vars

\* ------------------------------------------------------------------------
\* The loops, one iteration per step: the traversal of getSnapshot(), the
\* traversal of a growth, and the loop of clear().  A call that has a loop is
\* made in one step (Call...), runs one iteration per step (TraverseStep,
\* ClearStep) and returns in one step (SnapshotReturn, GrowthReturn,
\* ClearReturn); no other
\* call is made meanwhile, the program being single-threaded and synchronous.
\* Calls without a loop are made in one step, as before, and the fresh deque
\* makes every call in one step, when it is made.
\* ------------------------------------------------------------------------
\* The item pushed next.
NextItem == 1 + (Len(abstract) % MaxItem)

\* The position at the entry of _traverseFromFrontToBack or of clear's loop;
\* array is the array allocated before the traversal, which the callback
\* writes into (snapshotFrontToBack, newCyclicBuffer).
Entered(pc0, op, item, array) ==
    [pc |-> pc0, op |-> op, item |-> item, sizeAtCall |-> size,
     itemsTraversed |-> 0, currentDequeIndex |-> frontIndex, out |-> array,
     calls |-> 0, before |-> Undefined]

\* The position after the call returned; the number of calls made is kept.
Left == [Idle EXCEPT !.sizeAtCall = running.sizeAtCall,
                     !.calls = running.calls]

\* pushBack(item) / pushFront(item): a push that finds free room runs to its
\* end; one that finds the buffer full enters the traversal of the growth.
CallPush(op) ==
    /\ running.pc = "idle"
    /\ CanPush
    /\ IF size < Length(cyclicBuffer)
       THEN IF op = "pushBack" THEN PushBackCall(NextItem)
            ELSE PushFrontCall(NextItem)
       ELSE /\ running' = Entered("traverse", op, NextItem,
                               NewArray(newCapacity(Length(cyclicBuffer),
                                                    capacityIncrementFactor)))
            /\ fresh' = IF op = "pushBack" THEN pushBack(fresh, NextItem)
                        ELSE pushFront(fresh, NextItem)
            /\ FreshCalled(Undefined, FALSE, FALSE, << >>)
            /\ UNCHANGED <<dequeVars, initialCapacity, lastOp, argument,
                           returned, returnedBoolean, threw, snapshot, abstract,
                           fullPushes>>

CallPushBack == CallPush("pushBack")

CallPushFront == CallPush("pushFront")

CallPopBack == running.pc = "idle" /\ PopBack

CallPopFront == running.pc = "idle" /\ PopFront

CallGetSnapshot ==
    /\ running.pc = "idle"
    /\ running' = Entered("traverse", "getSnapshot", Undefined, NewArray(size))
    /\ FreshCalled(Undefined, FALSE, FALSE, getSnapshot(fresh))
    /\ UNCHANGED <<dequeVars, initialCapacity, lastOp, argument, returned,
                   returnedBoolean, threw, snapshot, abstract, fullPushes,
                   fresh>>

CallClear ==
    /\ running.pc = "idle"
    /\ running' = Entered("clear", "clear", Undefined, NewArray(0))
    /\ fresh' = constructor(capacity(Self), capacityIncrementFactor)
    /\ FreshCalled(Undefined, FALSE, FALSE, << >>)
    /\ UNCHANGED <<dequeVars, initialCapacity, lastOp, argument, returned,
                   returnedBoolean, threw, snapshot, abstract, fullPushes>>

\* One iteration of _traverseFromFrontToBack: the callback is invoked with
\* currentDequeIndex (getSnapshot's copies the slot, the growth's moves it out
\* of the old buffer), then ++itemsTraversed and the index advances cyclically.
TraverseStep ==
    /\ running.pc = "traverse"
    /\ traverseContinues(Self, running.itemsTraversed)
    /\ running' =
           [running EXCEPT
               !.out = [@ EXCEPT ![running.calls] =
                                     cyclicBuffer[running.currentDequeIndex]],
               !.calls = @ + 1,
               !.itemsTraversed = @ + 1,
               !.currentDequeIndex =
                   IF @ + 1 = Length(cyclicBuffer) THEN 0 ELSE @ + 1]
    /\ cyclicBuffer' =
           IF running.op = "getSnapshot" THEN cyclicBuffer
           ELSE [cyclicBuffer EXCEPT ![running.currentDequeIndex] = Undefined]
    /\ UNCHANGED <<frontIndex, size, numberOfCapacityIncrements,
                   capacityIncrementFactor, initialCapacity, lastOp, argument,
                   returned, returnedBoolean, threw, snapshot, abstract,
                   fullPushes, fresh, freshCall>>

\* The deque after the growth whose traversal has ended: the buffer is the
\* new one, which holds what the callback wrote.
Grown ==
    [cyclicBuffer |-> running.out, frontIndex |-> 0, size |-> size,
     numberOfCapacityIncrements |-> numberOfCapacityIncrements + 1,
     capacityIncrementFactor |-> capacityIncrementFactor]

\* The traversal of getSnapshot() has ended: it returns the array written.
SnapshotReturn ==
    /\ running.pc = "traverse"
    /\ running.op = "getSnapshot"
    /\ ~traverseContinues(Self, running.itemsTraversed)
    /\ running' = Left
    /\ lastOp' = "getSnapshot"
    /\ argument' = Undefined
    /\ returned' = Undefined
    /\ returnedBoolean' = FALSE
    /\ threw' = FALSE
    /\ snapshot' = [k \in 1 .. Length(running.out) |-> running.out[k - 1]]
    /\ UNCHANGED <<dequeVars, initialCapacity, abstract, fullPushes, fresh,
                   freshCall>>

\* The traversal of a growth has ended: the growth installs the new buffer
\* and the push writes its item.
GrowthReturn ==
    /\ running.pc = "traverse"
    /\ running.op \in {"pushBack", "pushFront"}
    /\ ~traverseContinues(Self, running.itemsTraversed)
    /\ running' = Left
    /\ lastOp' = running.op
    /\ argument' = running.item
    /\ returned' = Undefined
    /\ returnedBoolean' = FALSE
    /\ threw' = FALSE
    /\ snapshot' = << >>
    /\ fullPushes' = fullPushes + 1
    /\ Becomes(IF running.op = "pushBack" THEN pushBack(Grown, running.item)
               ELSE pushFront(Grown, running.item))
    /\ abstract' = IF running.op = "pushBack" THEN Append(abstract, running.item)
                   ELSE <<running.item>> \o abstract
    /\ UNCHANGED <<initialCapacity, fresh, freshCall>>

\* One iteration of clear's loop: popFront().
ClearStep ==
    /\ running.pc = "clear"
    /\ ~isEmpty(Self)
    /\ Becomes(popFront(Self).self)
    /\ running' = [running EXCEPT !.calls = @ + 1]
    /\ UNCHANGED <<initialCapacity, lastOp, argument, returned,
                   returnedBoolean, threw, snapshot, abstract, fullPushes,
                   fresh, freshCall>>

\* The deque is empty: this._frontIndex = 0 and clear() returns.
ClearReturn ==
    /\ running.pc = "clear"
    /\ isEmpty(Self)
    /\ frontIndex' = 0
    /\ running' = Left
    /\ lastOp' = "clear"
    /\ argument' = Undefined
    /\ returned' = Undefined
    /\ returnedBoolean' = FALSE
    /\ threw' = FALSE
    /\ snapshot' = << >>
    /\ abstract' = << >>
    /\ UNCHANGED <<cyclicBuffer, size, numberOfCapacityIncrements,
                   capacityIncrementFactor, initialCapacity, fullPushes, fresh,
                   freshCall>>

\* The steps of a call in progress.
Run ==
    \/ TraverseStep
    \/ SnapshotReturn
    \/ GrowthReturn
    \/ ClearStep
    \/ ClearReturn

StepNext ==
    \/ CallPushBack
    \/ CallPushFront
    \/ CallPopBack
    \/ CallPopFront
    \/ CallGetSnapshot
    \/ CallClear
    \/ TraverseStep
    \/ SnapshotReturn
    \/ GrowthReturn
    \/ ClearStep
    \/ ClearReturn

\* A call in progress is not suspended: the program runs it to its end.
StepSpec == Init /\ [][StepNext]_vars /\ WF_vars(Run)

\* ------------------------------------------------------------------------
\* A caller that makes a push and, as its next call, a pop: between the two
\* calls its position is "pushed" and after them "popped", and it keeps the
\* deque as it was before the push, the end it pushed at and the item.  Any
\* calls are made between such pairs.
\* ------------------------------------------------------------------------
Pushed(op, item) ==
    [Idle EXCEPT !.pc = "pushed", !.op = op, !.item = item, !.before = Self]

BetweenPairs == running.pc \in {"idle", "popped"}

PairPushBack ==
    /\ BetweenPairs
    /\ CanPush
    /\ \E item \in Items : PushBackCallThen(item, Pushed("pushBack", item))

PairPushFront ==
    /\ BetweenPairs
    /\ CanPush
    /\ \E item \in Items : PushFrontCallThen(item, Pushed("pushFront", item))

PairPopBack ==
    /\ running.pc = "pushed"
    /\ PopBackThen([running EXCEPT !.pc = "popped"])

PairPopFront ==
    /\ running.pc = "pushed"
    /\ PopFrontThen([running EXCEPT !.pc = "popped"])

\* A call made outside a pair.
Other(Call) == running.pc = "idle" /\ Call

PairNext ==
    \/ PairPushBack
    \/ PairPushFront
    \/ PairPopBack
    \/ PairPopFront
    \/ Other(PushBack)
    \/ Other(PushFront)
    \/ Other(PopBack)
    \/ Other(PopFront)
    \/ Other(Clear)

PairSpec == Init /\ [][PairNext]_vars

\* ------------------------------------------------------------------------
\* Properties
\* ------------------------------------------------------------------------
Pushes == {"pushBack", "pushFront"}

\* ceil(c * factor) in the arithmetic of the program: the product is the
\* double nearest to the exact product of c and the double factor.
CeilOfProduct(c, factor) == MathCeil(DoubleMul(c, DoubleOf(factor, FactorScale)))

\* The least integer not below c * factor / FactorScale, in exact arithmetic.
ExactCeilOfProduct(c, factor) == (c * factor + FactorScale - 1) \div FactorScale

\* C1: getSnapshot() is the abstract sequence: pushFront prepends, pushBack
\* appends, popFront removes the first item, popBack the last, clear all.
OrderPreservation == getSnapshot(Self) = abstract

OrderPreservationWitness ==
    /\ numberOfCapacityIncrements >= 2
    /\ frontIndex + size > capacity(Self)
    /\ size >= 3
    /\ abstract[1] # abstract[size]
    /\ getSnapshot(Self) = abstract

\* C2: 0 <= size <= capacity in every reachable state; a push on a full deque
\* grows the buffer, so the size does not exceed the capacity after it.
SizeWithinCapacity == 0 <= size /\ size <= capacity(Self)

SizeWithinCapacityWitness ==
    /\ lastOp \in Pushes
    /\ fullPushes >= 1
    /\ size = capacity(Self)

\* C3: a push on a full deque increments numberOfCapacityIncrements by one and
\* sets the capacity to ceil(oldCapacity * factor), the product being the
\* double product (the exact ceiling, or one more where the double product is
\* rounded up past an integer); a push on a deque that is not full changes
\* neither.
GrowthTrigger ==
    [][lastOp' \in Pushes =>
        IF size = capacity(Self)
        THEN /\ numberOfCapacityIncrements' = numberOfCapacityIncrements + 1
             /\ capacity(Self') =
                    CeilOfProduct(capacity(Self), capacityIncrementFactor)
             /\ capacity(Self') -
                    ExactCeilOfProduct(capacity(Self), capacityIncrementFactor)
                        \in {0, 1}
        ELSE /\ numberOfCapacityIncrements' = numberOfCapacityIncrements
             /\ capacity(Self') = capacity(Self)]_vars

GrowthTriggerWitness ==
    /\ lastOp = "pushFront"
    /\ capacityIncrementFactor = MIN_ALLOWED_CAPACITY_INCREMENT_FACTOR
    /\ initialCapacity = 3
    /\ numberOfCapacityIncrements = 1
    /\ capacity(Self) = 4
    /\ size = 4

\* C4: the capacity never decreases, and only a push on a full deque changes it.
CapacityNeverDecreases ==
    [][/\ capacity(Self') >= capacity(Self)
       /\ capacity(Self') # capacity(Self) =>
              lastOp' \in Pushes /\ size = capacity(Self)]_vars

CapacityNeverDecreasesWitness ==
    /\ lastOp = "clear"
    /\ numberOfCapacityIncrements >= 1
    /\ capacity(Self) > initialCapacity

\* C5: the grown capacity is strictly greater than the old one, so the grown
\* buffer has a free slot for the pushed item (GrowthSpec).
GrowthStrictlyIncreases ==
    numberOfCapacityIncrements >= 1 =>
        /\ capacity(Self) > initialCapacity
        /\ size = initialCapacity + 1
        /\ size <= capacity(Self)

GrowthStrictlyIncreasesWitness ==
    /\ numberOfCapacityIncrements = 1
    /\ initialCapacity = 1
    /\ capacityIncrementFactor = MIN_ALLOWED_CAPACITY_INCREMENT_FACTOR
    /\ capacity(Self) = 2
    /\ size = 2

\* C6: front, back, popFront and popBack on an empty deque throw and leave
\* every field of the deque as it was.
EmptyAccessFails ==
    [][lastOp' \in {"front", "back", "popFront", "popBack"} /\ size = 0 =>
        threw' /\ UNCHANGED dequeVars]_vars

EmptyAccessFailsWitness ==
    /\ lastOp = "popBack"
    /\ threw
    /\ size = 0
    /\ frontIndex # 0
    /\ numberOfCapacityIncrements >= 1

\* C7: popFront on a non-empty deque returns the front item, decrements the
\* size, and leaves the other items in order, the former second item in front.
PopFrontContract ==
    [][lastOp' = "popFront" /\ size > 0 =>
        /\ ~threw'
        /\ returned' = front(Self)
        /\ size' = size - 1
        /\ getSnapshot(Self') = Tail(getSnapshot(Self))
        /\ size' > 0 => front(Self') = getSnapshot(Self)[2]]_vars

PopFrontContractWitness ==
    /\ lastOp = "popFront"
    /\ ~threw
    /\ returned # Undefined
    /\ size > 0
    /\ frontIndex = 0

\* C8: popBack on a non-empty deque returns the back item, which is the one in
\* slot (frontIndex + size - 1) mod capacity, decrements the size, and leaves
\* the other items in order, the former second-to-last item at the back.
PopBackContract ==
    [][lastOp' = "popBack" /\ size > 0 =>
        /\ ~threw'
        /\ returned' = back(Self)
        /\ returned' = cyclicBuffer[(frontIndex + size - 1) % capacity(Self)]
        /\ size' = size - 1
        /\ getSnapshot(Self') = SubSeq(getSnapshot(Self), 1, size - 1)
        /\ size' > 0 => back(Self') = getSnapshot(Self)[size - 1]]_vars

PopBackContractWitness ==
    /\ lastOp = "popBack"
    /\ ~threw
    /\ returned # Undefined
    /\ size > 0
    /\ frontIndex + size > capacity(Self)

\* C9: pushFront(x) increments the size, leaves the deque non-empty with x in
\* front, and keeps the back item (x is the back item if the deque was empty).
PushFrontContract ==
    [][lastOp' = "pushFront" =>
        /\ size' = size + 1
        /\ ~isEmpty(Self')
        /\ front(Self') = argument'
        /\ size > 0 => back(Self') = back(Self)
        /\ size = 0 => back(Self') = argument']_vars

PushFrontContractWitness ==
    /\ lastOp = "pushFront"
    /\ fullPushes >= 1
    /\ frontIndex = capacity(Self) - 1
    /\ size >= 2
    /\ front(Self) = argument
    /\ back(Self) # argument

\* C10: pushBack(x) increments the size, leaves the deque non-empty with x at
\* the back, and keeps the front item (x is the front item if it was empty).
PushBackContract ==
    [][lastOp' = "pushBack" =>
        /\ size' = size + 1
        /\ ~isEmpty(Self')
        /\ back(Self') = argument'
        /\ size > 0 => front(Self') = front(Self)
        /\ size = 0 => front(Self') = argument']_vars

PushBackContractWitness ==
    /\ lastOp = "pushBack"
    /\ fullPushes >= 1
    /\ frontIndex = 0
    /\ size = capacity(Self)
    /\ back(Self) = argument
    /\ front(Self) # argument

\* popFront called n times on d.
RECURSIVE PopFrontTimes(_, _)
PopFrontTimes(d, n) ==
    IF n = 0 THEN d ELSE PopFrontTimes(popFront(d).self, n - 1)

\* C11: clear() leaves size 0, isEmpty and frontIndex 0, keeps the capacity and
\* numberOfCapacityIncrements, and leaves what size calls of popFront followed
\* by frontIndex = 0 leave.
ClearContract ==
    [][lastOp' = "clear" =>
        /\ ~threw'
        /\ size' = 0
        /\ isEmpty(Self')
        /\ frontIndex' = 0
        /\ capacity(Self') = capacity(Self)
        /\ numberOfCapacityIncrements' = numberOfCapacityIncrements
        /\ Self' = [PopFrontTimes(Self, size) EXCEPT !.frontIndex = 0]]_vars

ClearContractWitness ==
    /\ lastOp = "clear"
    /\ size = 0
    /\ frontIndex = 0
    /\ numberOfCapacityIncrements >= 2
    /\ capacity(Self) > initialCapacity

\* C12: from a clear() on, the deque is what a deque freshly constructed with
\* the current capacity and the same factor is after the same calls: the
\* buffer, frontIndex and size are equal (all slots empty, 0 and 0 right after
\* the clear) and so is all that the calls return or throw; only
\* numberOfCapacityIncrements differs.
FreshEquivalence ==
    /\ cyclicBuffer = fresh.cyclicBuffer
    /\ frontIndex = fresh.frontIndex
    /\ size = fresh.size
    /\ capacityIncrementFactor = fresh.capacityIncrementFactor
    /\ capacity(Self) = capacity(fresh)
    /\ getSnapshot(Self) = getSnapshot(fresh)
    /\ size > 0 => front(Self) = front(fresh) /\ back(Self) = back(fresh)
    /\ threw = freshCall.threw
    /\ returnedBoolean = freshCall.returnedBoolean
    /\ snapshot = freshCall.snapshot
    /\ lastOp # "numberOfCapacityIncrements" => returned = freshCall.returned
    /\ lastOp = "clear" =>
           /\ cyclicBuffer = NewArray(capacity(Self))
           /\ frontIndex = 0
           /\ size = 0

FreshEquivalenceWitness ==
    /\ numberOfCapacityIncrements >= 2
    /\ fresh.numberOfCapacityIncrements = 1
    /\ lastOp = "popFront"
    /\ ~threw
    /\ returned # Undefined
    /\ returned = freshCall.returned
    /\ size >= 2
    /\ frontIndex + size > capacity(Self)
    /\ cyclicBuffer = fresh.cyclicBuffer

\* C13: a pop that succeeds takes one item off the end it names, lowers size by
\* one and leaves the capacity and the increment count alone; popFront advances
\* frontIndex by one slot cyclically and popBack leaves it where it is, so
\* neither moves it back to 0 on emptying the deque; once as many items were
\* popped as were pushed the deque is empty (size 0, isEmpty), and not before.
RoundTrip ==
    [][(lastOp' \in {"popFront", "popBack"} /\ ~threw') =>
        /\ size' = size - 1
        /\ Len(abstract') = Len(abstract) - 1
        /\ returned' = IF lastOp' = "popFront" THEN abstract[1]
                       ELSE abstract[Len(abstract)]
        /\ capacity(Self') = capacity(Self)
        /\ numberOfCapacityIncrements' = numberOfCapacityIncrements
        /\ frontIndex' = IF lastOp' = "popFront"
                         THEN (frontIndex + 1) % capacity(Self)
                         ELSE frontIndex
        /\ (abstract' = << >>) <=> (size' = 0)
        /\ isEmpty(Self') <=> (abstract' = << >>)
        /\ getSnapshot(Self') = abstract']_vars

\* The last pop of a round that followed a clear() and a growth: the deque is
\* empty again and frontIndex is not 0.
RoundTripWitness ==
    /\ lastOp \in {"popFront", "popBack"}
    /\ ~threw
    /\ size = 0
    /\ isEmpty(Self)
    /\ abstract = << >>
    /\ frontIndex # 0
    /\ fresh.numberOfCapacityIncrements >= 1
    /\ numberOfCapacityIncrements > fresh.numberOfCapacityIncrements

\* C14: while no push was made with size = capacity, the capacity is the
\* initial one and numberOfCapacityIncrements is 0, whatever pushes and pops
\* were made and wherever the occupied region lies in the buffer.
NoGrowthWithoutFullPush ==
    fullPushes = 0 =>
        /\ capacity(Self) = initialCapacity
        /\ numberOfCapacityIncrements = 0
        /\ size <= initialCapacity

\* The deque holds initialCapacity items, in a region that wraps around the
\* end of the buffer, and has not grown.
NoGrowthWithoutFullPushWitness ==
    /\ fullPushes = 0
    /\ initialCapacity = MaxInitialCapacity
    /\ size = initialCapacity
    /\ capacity(Self) = initialCapacity
    /\ frontIndex > 0
    /\ frontIndex + size > capacity(Self)
    /\ lastOp \in {"pushBack", "pushFront"}

\* C17: getSnapshot() returns a sequence of exactly size items, the stored
\* items front to back, and changes nothing: size, capacity,
\* numberOfCapacityIncrements, frontIndex and every buffer slot are as before
\* the call; a second call right after the first returns an equal sequence.
SnapshotContract ==
    [][lastOp' = "getSnapshot" =>
        /\ ~threw'
        /\ Len(snapshot') = size
        /\ snapshot' = abstract
        /\ size' = size
        /\ capacity(Self') = capacity(Self)
        /\ numberOfCapacityIncrements' = numberOfCapacityIncrements
        /\ frontIndex' = frontIndex
        /\ \A i \in DOMAIN cyclicBuffer : cyclicBuffer'[i] = cyclicBuffer[i]
        /\ UNCHANGED dequeVars
        /\ lastOp = "getSnapshot" => snapshot' = snapshot]_vars

\* A snapshot of a partly filled deque whose occupied region wraps around.
SnapshotContractWitness ==
    /\ lastOp = "getSnapshot"
    /\ Len(snapshot) = size
    /\ size >= 3
    /\ size < capacity(Self)
    /\ frontIndex + size > capacity(Self)
    /\ snapshot[1] # snapshot[size]

\* C18: the getters size, isEmpty, capacity and numberOfCapacityIncrements, and
\* front and back on a non-empty deque, do not throw and change no field;
\* size returns the number of stored items, isEmpty returns size = 0, capacity
\* the buffer length, front the first item of getSnapshot() and back its last.
GettersContract ==
    [][(\/ lastOp' \in {"size", "isEmpty", "capacity",
                       "numberOfCapacityIncrements"}
        \/ lastOp' \in {"front", "back"} /\ size > 0) =>
        /\ ~threw'
        /\ UNCHANGED dequeVars
        /\ UNCHANGED abstract
        /\ lastOp' = "size" => returned' = size /\ returned' = Len(abstract)
        /\ lastOp' = "isEmpty" => returnedBoolean' = (size = 0)
        /\ lastOp' = "capacity" => returned' = Length(cyclicBuffer)
        /\ lastOp' = "numberOfCapacityIncrements" =>
               returned' = numberOfCapacityIncrements
        /\ lastOp' = "front" => returned' = getSnapshot(Self)[1]
        /\ lastOp' = "back" => returned' = getSnapshot(Self)[size]]_vars

\* back on a deque whose occupied region wraps around and whose two ends hold
\* different items.
GettersContractWitness ==
    /\ lastOp = "back"
    /\ ~threw
    /\ size >= 2
    /\ frontIndex + size > capacity(Self)
    /\ returned = getSnapshot(Self)[size]
    /\ returned # getSnapshot(Self)[1]
    /\ numberOfCapacityIncrements >= 1

\* The factors that a double holds exactly (1.25, 1.5, 1.75 and 2).
DyadicFactors == {12500, 15000, 17500, 20000}

\* C19 as the README words it: the buffer allocated by a push on a full deque
\* has oldBufferSize * capacityIncrementFactor slots.
NewBufferSizeIsProduct ==
    [][(lastOp' \in Pushes /\ size = capacity(Self)) =>
        capacity(Self') * FactorScale =
            capacity(Self) * capacityIncrementFactor]_vars

\* C19: the buffer allocated by a push on a full deque has
\* Math.ceil(oldBufferSize * capacityIncrementFactor) slots, the product being
\* a double: never fewer slots than the product and fewer than two more; for a
\* factor a double holds exactly it is the product rounded up to an integer,
\* hence the product itself when that is an integer.  With initial capacity 100
\* and factor 2 the 101st push allocates 200 slots.
NewBufferSizeIsCeilOfProduct ==
    [][(lastOp' \in Pushes /\ size = capacity(Self)) =>
        LET product == capacity(Self) * capacityIncrementFactor
        IN  /\ capacity(Self') =
                   CeilOfProduct(capacity(Self), capacityIncrementFactor)
            /\ capacity(Self') * FactorScale >= product
            /\ capacity(Self') * FactorScale < product + 2 * FactorScale
            /\ capacityIncrementFactor \in DyadicFactors =>
                   /\ capacity(Self') * FactorScale < product + FactorScale
                   /\ product % FactorScale = 0 =>
                          capacity(Self') * FactorScale = product
            /\ (capacity(Self) = 100 /\ capacityIncrementFactor = 20000) =>
                   /\ capacity(Self') = 200
                   /\ size' = 101
                   /\ numberOfCapacityIncrements' =
                          numberOfCapacityIncrements + 1]_vars

\* The README's example: the 101st item went into a buffer of 200 slots.
NewBufferSizeIsCeilOfProductWitness ==
    /\ lastOp \in Pushes
    /\ initialCapacity = 100
    /\ capacityIncrementFactor = MAX_ALLOWED_CAPACITY_INCREMENT_FACTOR
    /\ numberOfCapacityIncrements = 1
    /\ capacity(Self) = 200
    /\ size = 101

\* C15: a construction that succeeds leaves a deque whose capacity is the
\* initialCapacity given, 128 if none was given, with every slot empty,
\* frontIndex 0, size 0, isEmpty, numberOfCapacityIncrements 0 and the factor
\* given, 1.5 if none was given.
ConstructionContract ==
    (lastOp = "constructor" /\ ~threw) =>
        /\ capacity(Self) * CapacityScale =
               IF Len(argument) >= 1 THEN argument[1] ELSE 128 * CapacityScale
        /\ \A i \in DOMAIN cyclicBuffer : cyclicBuffer[i] = Undefined
        /\ DOMAIN cyclicBuffer = 0 .. capacity(Self) - 1
        /\ frontIndex = 0
        /\ size = 0
        /\ isEmpty(Self)
        /\ getSnapshot(Self) = << >>
        /\ numberOfCapacityIncrements = 0
        /\ capacityIncrementFactor =
               IF Len(argument) >= 2 THEN argument[2] ELSE 15000

\* new SlimDeque(): 128 empty slots and the factor 1.5.
ConstructionContractWitness ==
    /\ lastOp = "constructor"
    /\ ~threw
    /\ argument = << >>
    /\ capacity(Self) = 128
    /\ size = 0
    /\ capacityIncrementFactor = 15000

\* An integer >= 1, and a number in the closed range [1.1, 2].
IsIntegerAtLeastOne(num) ==
    num # NaN /\ num % CapacityScale = 0 /\ num >= CapacityScale
InClosedRange(factor) ==
    factor # NaN /\ 11000 <= factor /\ factor <= 20000

\* C16: a construction throws exactly when initialCapacity is not an integer
\* >= 1 or capacityIncrementFactor is not in the closed range [1.1, 2].
ConstructionFailsExactlyOnInvalidArguments ==
    lastOp = "constructor" =>
        (threw <=>
            \/ ~IsIntegerAtLeastOne(InitialCapacityOf(argument))
            \/ ~InClosedRange(CapacityIncrementFactorOf(argument)))

\* C16 for every factor but NaN: the same equivalence.
ConstructionFailsOnInvalidNumerals ==
    (lastOp = "constructor" /\ CapacityIncrementFactorOf(argument) # NaN) =>
        (threw <=>
            \/ ~IsIntegerAtLeastOne(InitialCapacityOf(argument))
            \/ ~InClosedRange(CapacityIncrementFactorOf(argument)))

\* new SlimDeque(1, NaN) returned a deque.
ConstructionAcceptsNaNFactor ==
    /\ lastOp = "constructor"
    /\ argument = <<1 * CapacityScale, NaN>>
    /\ ~threw
    /\ capacity(Self) = 1
    /\ capacityIncrementFactor = NaN

\* C20: Scenario A.  A deque constructed with capacity 4 and factor 2 has,
\* after pushBack of 1, 2, 3, 4, size 4, capacity 4 and no capacity increment;
\* after pushBack(5) it has capacity 8, one capacity increment and the
\* snapshot <<1, 2, 3, 4, 5>>.
ScenarioA ==
    (initialCapacity = 4 /\ capacityIncrementFactor = 20000) =>
        /\ (abstract = <<1, 2, 3, 4>> /\ frontIndex = 0) =>
               /\ size = 4
               /\ capacity(Self) = 4
               /\ numberOfCapacityIncrements = 0
               /\ cyclicBuffer = [i \in 0 .. 3 |-> i + 1]
        /\ abstract = <<1, 2, 3, 4, 5>> =>
               /\ size = 5
               /\ capacity(Self) = 8
               /\ numberOfCapacityIncrements = 1
               /\ getSnapshot(Self) = <<1, 2, 3, 4, 5>>

ScenarioAWitness ==
    /\ initialCapacity = 4
    /\ capacityIncrementFactor = 20000
    /\ lastOp = "pushBack"
    /\ argument = 5
    /\ abstract = <<1, 2, 3, 4, 5>>
    /\ cyclicBuffer = [i \in 0 .. 7 |-> IF i < 5 THEN i + 1 ELSE Undefined]
    /\ frontIndex = 0
    /\ capacity(Self) = 8
    /\ numberOfCapacityIncrements = 1

\* The items 1 .. n in push order.
FirstItems(n) == [k \in 1 .. n |-> k]

\* C21: Scenario C.  On a deque constructed with capacity 1 and factor 1.1,
\* each of the first 10 pushBack calls after the first finds size = capacity
\* and grows the buffer to ceil(capacity * 1.1), which is one slot more: the
\* capacity is 1, 2, 3, ..., 10 in turn, every growth is counted, and the
\* snapshot is the items pushed, in push order.
ScenarioC ==
    [][(/\ initialCapacity = 1
        /\ capacityIncrementFactor = MIN_ALLOWED_CAPACITY_INCREMENT_FACTOR
        /\ lastOp' = "pushBack"
        /\ Len(abstract') <= 10
        /\ abstract' = FirstItems(Len(abstract'))) =>
        /\ IF size = capacity(Self)
           THEN /\ capacity(Self') =
                       CeilOfProduct(capacity(Self), capacityIncrementFactor)
                /\ capacity(Self') = capacity(Self) + 1
                /\ numberOfCapacityIncrements' = numberOfCapacityIncrements + 1
           ELSE /\ size = 0
                /\ capacity(Self') = capacity(Self)
                /\ numberOfCapacityIncrements' = numberOfCapacityIncrements
        /\ capacity(Self') = Len(abstract')
        /\ numberOfCapacityIncrements' = Len(abstract') - 1
        /\ size' = Len(abstract')
        /\ getSnapshot(Self') = FirstItems(Len(abstract'))]_vars

\* The tenth item was pushed: ten slots, nine growths.
ScenarioCWitness ==
    /\ initialCapacity = 1
    /\ capacityIncrementFactor = MIN_ALLOWED_CAPACITY_INCREMENT_FACTOR
    /\ lastOp = "pushBack"
    /\ argument = 10
    /\ abstract = FirstItems(10)
    /\ cyclicBuffer = [i \in 0 .. 9 |-> i + 1]
    /\ frontIndex = 0
    /\ size = 10
    /\ numberOfCapacityIncrements = 9

\* C22: Scenario B.  On a deque constructed with the defaults, pushFront(1),
\* pushFront(2), pushBack(3) give front 2, back 3 and the snapshot <<2, 1, 3>>
\* without growth; the two front items are in the last two slots of the
\* buffer (1 in slot 127, 2 in slot 126, where frontIndex points) and 3 is in
\* slot 0.
ScenarioB ==
    (/\ initialCapacity = DEFAULT_SLIM_DEQUE_INITIAL_CAPACITY
     /\ capacityIncrementFactor = DEFAULT_SLIM_DEQUE_CAPACITY_INCREMENT_FACTOR
     /\ abstract = <<2, 1, 3>>) =>
        /\ front(Self) = 2
        /\ back(Self) = 3
        /\ getSnapshot(Self) = <<2, 1, 3>>
        /\ size = 3
        /\ capacity(Self) = 128
        /\ numberOfCapacityIncrements = 0
        /\ frontIndex \in {126, 127}
        /\ cyclicBuffer[frontIndex] = 2
        /\ fullPushes = 0
        /\ cyclicBuffer[127] = 1 =>
               /\ frontIndex = 126
               /\ cyclicBuffer =
                      [i \in 0 .. 127 |->
                          IF i = 126 THEN 2 ELSE IF i = 127 THEN 1
                          ELSE IF i = 0 THEN 3 ELSE Undefined]

ScenarioBWitness ==
    /\ initialCapacity = DEFAULT_SLIM_DEQUE_INITIAL_CAPACITY
    /\ capacityIncrementFactor = DEFAULT_SLIM_DEQUE_CAPACITY_INCREMENT_FACTOR
    /\ lastOp = "pushBack"
    /\ argument = 3
    /\ abstract = <<2, 1, 3>>
    /\ frontIndex = 126
    /\ cyclicBuffer[126] = 2
    /\ cyclicBuffer[127] = 1
    /\ cyclicBuffer[0] = 3
    /\ front(Self) = 2
    /\ back(Self) = 3

\* C23: frontIndex is an integer with 0 <= frontIndex < capacity in every
\* reachable state.
FrontIndexInRange ==
    /\ frontIndex \in Int
    /\ 0 <= frontIndex
    /\ frontIndex < capacity(Self)

\* The cases the range is at stake in: a pushFront that found frontIndex 0 (or
\* grew, which resets it to 0) and left it at capacity - 1, and a popFront
\* that found it at capacity - 1 and left it at 0.
FrontIndexInRangeWitness ==
    /\ lastOp = "popFront"
    /\ ~threw
    /\ frontIndex = 0
    /\ size >= 1
    /\ capacity(Self) >= 3
    /\ cyclicBuffer[capacity(Self) - 1] = Undefined
    /\ numberOfCapacityIncrements >= 1

\* The slot of the k-th item from the front, k = 0 for the front item.
SlotOf(k) == (frontIndex + k) % capacity(Self)

\* C24: the k-th item from the front (0 <= k < size) is in slot
\* (frontIndex + k) mod capacity; these size slots are distinct, they are the
\* slots the traversal visits, in this order, and they are exactly the slots
\* that hold an item.
OccupiedRegion ==
    /\ size = Len(abstract)
    /\ \A k \in 0 .. size - 1 : cyclicBuffer[SlotOf(k)] = abstract[k + 1]
    /\ \A k, l \in 0 .. size - 1 : SlotOf(k) = SlotOf(l) => k = l
    /\ traverseFromFrontToBack(Self) = [k \in 1 .. size |-> SlotOf(k - 1)]
    /\ {i \in DOMAIN cyclicBuffer : cyclicBuffer[i] # Undefined} =
           {SlotOf(k) : k \in 0 .. size - 1}
    /\ size > 0 => calculateCurrentBackIndex(Self) = SlotOf(size - 1)

\* A region that wraps past the end of a buffer that has grown, with free
\* slots between its back and its front.
OccupiedRegionWitness ==
    /\ size >= 2
    /\ size < capacity(Self)
    /\ frontIndex + size > capacity(Self)
    /\ SlotOf(size - 1) < frontIndex
    /\ cyclicBuffer[SlotOf(size - 1)] = abstract[size]
    /\ cyclicBuffer[frontIndex] # cyclicBuffer[SlotOf(size - 1)]
    /\ numberOfCapacityIncrements >= 1

\* C25: a push on a full deque, wherever the front is in the old buffer, moves
\* the old items in front-to-back order to slots 0 .. oldSize - 1 of the new
\* buffer and sets frontIndex to 0 before it writes the item.  A growing
\* pushBack leaves frontIndex 0 and the item in slot oldSize; a growing
\* pushFront leaves frontIndex newCapacity - 1, the item there, and the old
\* items in slots 0 .. oldSize - 1.  Every other slot is empty.
GrowthRelocation ==
    [][(lastOp' \in Pushes /\ size = capacity(Self)) =>
        LET grown == increaseCapacityIfNecessary(Self)
            itemSlot == IF lastOp' = "pushBack" THEN size
                        ELSE capacity(Self') - 1
        IN  /\ grown.frontIndex = 0
            /\ grown.size = size
            /\ \A k \in 0 .. size - 1 :
                   /\ grown.cyclicBuffer[k] =
                          cyclicBuffer[(frontIndex + k) % capacity(Self)]
                   /\ cyclicBuffer'[k] = grown.cyclicBuffer[k]
                   /\ cyclicBuffer'[k] = abstract[k + 1]
            /\ \A i \in size .. capacity(grown) - 1 :
                   grown.cyclicBuffer[i] = Undefined
            /\ capacity(Self') = capacity(grown)
            /\ capacity(Self') > size
            /\ frontIndex' = IF lastOp' = "pushBack" THEN 0
                             ELSE capacity(Self') - 1
            /\ cyclicBuffer'[itemSlot] = argument'
            /\ \A i \in size .. capacity(Self') - 1 :
                   i # itemSlot => cyclicBuffer'[i] = Undefined]_vars

\* A pushFront that grew the buffer: the item is in the last slot, the old
\* items are in the first slots and there are empty slots in between.
GrowthRelocationWitness ==
    /\ lastOp = "pushFront"
    /\ fullPushes >= 2
    /\ numberOfCapacityIncrements >= 2
    /\ frontIndex = capacity(Self) - 1
    /\ cyclicBuffer[frontIndex] = argument
    /\ size >= 3
    /\ size < capacity(Self)
    /\ cyclicBuffer[size - 1] = Undefined
    /\ cyclicBuffer[0] # argument

\* C26: a push on a deque that is not full does not grow it.  pushBack writes
\* the item in slot (frontIndex + size) mod capacity and leaves frontIndex;
\* pushFront moves frontIndex one slot back, to capacity - 1 from 0, and
\* writes the item there.  The slot written was empty and no other slot
\* changes.
PushWithoutGrowthFrame ==
    [][(lastOp' \in Pushes /\ size < capacity(Self)) =>
        LET written == IF lastOp' = "pushBack"
                       THEN (frontIndex + size) % capacity(Self)
                       ELSE (frontIndex + capacity(Self) - 1) % capacity(Self)
        IN  /\ capacity(Self') = capacity(Self)
            /\ numberOfCapacityIncrements' = numberOfCapacityIncrements
            /\ size' = size + 1
            /\ lastOp' = "pushBack" => frontIndex' = frontIndex
            /\ lastOp' = "pushFront" =>
                   /\ frontIndex' = written
                   /\ frontIndex = 0 => frontIndex' = capacity(Self) - 1
                   /\ frontIndex > 0 => frontIndex' = frontIndex - 1
            /\ cyclicBuffer[written] = Undefined
            /\ cyclicBuffer'[written] = argument'
            /\ \A i \in DOMAIN cyclicBuffer :
                   i # written => cyclicBuffer'[i] = cyclicBuffer[i]
            /\ cyclicBuffer' = [cyclicBuffer EXCEPT ![written] = argument']]_vars

\* A pushFront on a deque that never grew took frontIndex from 0 to the last
\* slot.
PushWithoutGrowthFrameWitness ==
    /\ lastOp = "pushFront"
    /\ fullPushes = 0
    /\ numberOfCapacityIncrements = 0
    /\ capacity(Self) = 3
    /\ frontIndex = capacity(Self) - 1
    /\ cyclicBuffer[frontIndex] = argument
    /\ size = 2
    /\ cyclicBuffer[0] # Undefined
    /\ cyclicBuffer[1] = Undefined

\* C27: on a non-empty deque popFront empties slot frontIndex and advances
\* frontIndex by one slot, to 0 from capacity - 1; popBack empties slot
\* (frontIndex + size - 1) mod capacity and leaves frontIndex.  The slot
\* emptied held the item returned and no other slot changes.
PopFrame ==
    [][(lastOp' \in {"popFront", "popBack"} /\ size > 0) =>
        LET emptied == IF lastOp' = "popFront" THEN frontIndex
                       ELSE (frontIndex + size - 1) % capacity(Self)
        IN  /\ ~threw'
            /\ size' = size - 1
            /\ lastOp' = "popFront" =>
                   /\ frontIndex' = (frontIndex + 1) % capacity(Self)
                   /\ frontIndex = capacity(Self) - 1 => frontIndex' = 0
                   /\ frontIndex < capacity(Self) - 1 =>
                          frontIndex' = frontIndex + 1
            /\ lastOp' = "popBack" => frontIndex' = frontIndex
            /\ cyclicBuffer[emptied] # Undefined
            /\ returned' = cyclicBuffer[emptied]
            /\ cyclicBuffer'[emptied] = Undefined
            /\ \A i \in DOMAIN cyclicBuffer :
                   i # emptied => cyclicBuffer'[i] = cyclicBuffer[i]
            /\ cyclicBuffer' = [cyclicBuffer EXCEPT ![emptied] = Undefined]]_vars

\* A popBack took the back item out of a slot before the front item's slot:
\* the region wrapped, and frontIndex is where it was.
PopFrameWitness ==
    /\ lastOp = "popBack"
    /\ ~threw
    /\ returned # Undefined
    /\ size >= 1
    /\ frontIndex > 0
    /\ frontIndex + size >= capacity(Self)
    /\ cyclicBuffer[(frontIndex + size) % capacity(Self)] = Undefined
    /\ cyclicBuffer[frontIndex] # Undefined
    /\ size < capacity(Self) - 1

\* The candidate c is within one wrap of the buffer of d, and fixing it gives
\* the index in [0, capacity) that equals c modulo the capacity.
WithinOneWrap(d, c) ==
    /\ 0 - capacity(d) <= c
    /\ c <= 2 * capacity(d) - 1
    /\ 0 - 1 <= c
    /\ c <= 2 * capacity(d) - 2
    /\ fixIndexIfNecessary(d, c) \in 0 .. capacity(d) - 1
    /\ fixIndexIfNecessary(d, c) = (c + capacity(d)) % capacity(d)

\* C28: every candidate index that a call made in a reachable state passes to
\* _fixIndexIfNecessary lies in [-1, 2 * capacity - 2], hence in
\* [-capacity, 2 * capacity - 1], and the helper returns the index in
\* [0, capacity) equal to it modulo capacity.  The calls are those of back and
\* popBack on a non-empty deque and those of pushBack and pushFront, made
\* after the growth if there is one.
IndexCandidatesWithinOneWrap ==
    LET grown == increaseCapacityIfNecessary(Self)
    IN  /\ WithinOneWrap(grown, newBackIndexCandidate(grown))
        /\ WithinOneWrap(grown, newFrontIndexCandidate(grown))
        /\ size > 0 => WithinOneWrap(Self, currentBackIndexCandidate(Self))

\* Both ends of the range: on a full deque whose front is in the last slot,
\* back passes 2 * capacity - 2, and pushFront, after the growth, passes -1.
IndexCandidatesWithinOneWrapWitness ==
    /\ capacity(Self) >= 3
    /\ frontIndex = capacity(Self) - 1
    /\ size = capacity(Self)
    /\ currentBackIndexCandidate(Self) = 2 * capacity(Self) - 2
    /\ newFrontIndexCandidate(increaseCapacityIfNecessary(Self)) = 0 - 1
    /\ lastOp = "back"
    /\ ~threw

\* C29: numberOfCapacityIncrements never decreases; a step changes it only if
\* it is a push made with size = capacity, which adds one; popFront, popBack,
\* clear and getSnapshot leave it as it is; it is the number of pushes made so
\* far while size = capacity.
IncrementsCountFullPushes ==
    [][/\ numberOfCapacityIncrements' >= numberOfCapacityIncrements
       /\ numberOfCapacityIncrements' # numberOfCapacityIncrements =>
              /\ lastOp' \in Pushes
              /\ size = capacity(Self)
              /\ numberOfCapacityIncrements' = numberOfCapacityIncrements + 1
       /\ (lastOp' \in Pushes /\ size = capacity(Self)) =>
              numberOfCapacityIncrements' = numberOfCapacityIncrements + 1
       /\ lastOp' \in {"popFront", "popBack", "clear", "getSnapshot"} =>
              numberOfCapacityIncrements' = numberOfCapacityIncrements
       /\ numberOfCapacityIncrements = fullPushes
       /\ numberOfCapacityIncrements' = fullPushes']_vars

\* Two growths, then a clear, then pushes and a pop: the count is still the
\* number of pushes made on a full deque.
IncrementsCountFullPushesWitness ==
    /\ lastOp = "popBack"
    /\ ~threw
    /\ size >= 1
    /\ fullPushes >= 2
    /\ numberOfCapacityIncrements = fullPushes
    /\ fresh.numberOfCapacityIncrements = 0
    /\ getNumberOfCapacityIncrements(Self) >= 2

\* C30: every call returns: a call that has entered a loop is followed by its
\* return, and by then the traversal has invoked its callback exactly as
\* many times as the deque had items at the call, and clear() has called
\* popFront exactly that many times.
LoopsTerminate ==
    (running.pc # "idle") ~>
        (running.pc = "idle" /\ running.calls = running.sizeAtCall)

\* A pushFront that grew a buffer of three slots has returned: the traversal
\* made three callbacks and the deque holds the four items in order.
LoopsTerminateWitness ==
    /\ running.pc = "idle"
    /\ lastOp = "pushFront"
    /\ running.sizeAtCall = 3
    /\ running.calls = 3
    /\ size = 4
    /\ frontIndex = capacity(Self) - 1
    /\ getSnapshot(Self) = abstract
    /\ numberOfCapacityIncrements = fullPushes

\* The slots of the occupied region: those of the size items from the front.
Occupied == {SlotOf(k) : k \in 0 .. size - 1}

\* C31: pushed items are never the empty value, and every buffer slot outside
\* the occupied region {(frontIndex + k) mod capacity : 0 <= k < size} is
\* empty: there are capacity - size such slots, the slot a pop has just
\* vacated is one of them, and after clear() every slot is empty.
NoStaleReferences ==
    /\ \A k \in 1 .. Len(abstract) : abstract[k] # Undefined
    /\ \A i \in DOMAIN cyclicBuffer \ Occupied : cyclicBuffer[i] = Undefined
    /\ Cardinality(DOMAIN cyclicBuffer \ Occupied) = capacity(Self) - size
    /\ (lastOp = "popFront" /\ ~threw) =>
           /\ (frontIndex + capacity(Self) - 1) % capacity(Self) \notin Occupied
           /\ cyclicBuffer[(frontIndex + capacity(Self) - 1) % capacity(Self)]
                  = Undefined
    /\ (lastOp = "popBack" /\ ~threw) =>
           /\ SlotOf(size) \notin Occupied
           /\ cyclicBuffer[SlotOf(size)] = Undefined
    /\ lastOp = "clear" => \A i \in DOMAIN cyclicBuffer : cyclicBuffer[i] = Undefined

\* A popFront has just removed an item from a buffer that has grown: the
\* slot it vacated and at least one more slot lie outside a region that still
\* holds items and does not start at slot 0.
NoStaleReferencesWitness ==
    /\ lastOp = "popFront"
    /\ ~threw
    /\ returned # Undefined
    /\ numberOfCapacityIncrements >= 1
    /\ size >= 1
    /\ size + 2 <= capacity(Self)
    /\ frontIndex > 1
    /\ cyclicBuffer[frontIndex - 1] = Undefined
    /\ cyclicBuffer[frontIndex] # Undefined

\* The slots of the occupied region of a deque d.
OccupiedOf(d) ==
    {(d.frontIndex + k) % Length(d.cyclicBuffer) : k \in 0 .. d.size - 1}

\* C32: a push never overwrites a live item.  With g the deque after the
\* growth the push may have made (g holds the items the deque held, in
\* order), the slot the push writes is the new back / new front slot of g; it
\* is outside the occupied region of g and empty in g, the push leaves every
\* slot of that region as it is in g, and the items stored before the push
\* are all present after it, in their order, next to the pushed item.
PushKeepsLiveItems ==
    [][lastOp' \in Pushes =>
        LET g == increaseCapacityIfNecessary(Self)
            written == IF lastOp' = "pushBack"
                       THEN calculateNewBackIndex(g)
                       ELSE calculateNewFrontIndex(g)
            before == getSnapshot(Self)
            after == getSnapshot(Self')
        IN  /\ getSnapshot(g) = before
            /\ g.size = size
            /\ written \in DOMAIN g.cyclicBuffer
            /\ written \notin OccupiedOf(g)
            /\ g.cyclicBuffer[written] = Undefined
            /\ cyclicBuffer'[written] = argument'
            /\ \A i \in OccupiedOf(g) : cyclicBuffer'[i] = g.cyclicBuffer[i]
            /\ OccupiedOf(Self') = OccupiedOf(g) \cup {written}
            /\ Len(after) = Len(before) + 1
            /\ lastOp' = "pushBack" =>
                   /\ SubSeq(after, 1, Len(before)) = before
                   /\ after[Len(after)] = argument'
            /\ lastOp' = "pushFront" =>
                   /\ Tail(after) = before
                   /\ Head(after) = argument']_vars

\* A pushBack has filled the last free slot of a buffer that grew from three
\* slots to four: every slot holds a live item, front to back.
PushKeepsLiveItemsWitness ==
    /\ lastOp = "pushBack"
    /\ initialCapacity = 3
    /\ numberOfCapacityIncrements = 1
    /\ capacity(Self) = 4
    /\ size = 4
    /\ frontIndex = 0
    /\ cyclicBuffer[3] = argument
    /\ \A i \in DOMAIN cyclicBuffer : cyclicBuffer[i] # Undefined
    /\ getSnapshot(Self) = abstract

\* c -> ceil(c * factor), in the arithmetic of the program, applied n times
\* to c.
RECURSIVE GrownTimes(_, _, _)
GrownTimes(c, factor, n) ==
    IF n = 0 THEN c ELSE GrownTimes(CeilOfProduct(c, factor), factor, n - 1)

\* C33: capacity is determined by the construction parameters and the
\* increment count alone: whatever calls were made, in whatever order and at
\* whichever end, capacity is c -> ceil(c * capacityIncrementFactor) applied
\* numberOfCapacityIncrements times to the initial capacity.
CapacityDetermined ==
    /\ capacity(Self) = GrownTimes(initialCapacity, capacityIncrementFactor,
                                   numberOfCapacityIncrements)
    /\ capacity(Self) = Length(cyclicBuffer)
    /\ numberOfCapacityIncrements = 0 => capacity(Self) = initialCapacity

\* A deque constructed with one slot has grown three times, and the front
\* item, pushed to the last of its four slots, has been popped since.
CapacityDeterminedWitness ==
    /\ initialCapacity = 1
    /\ capacityIncrementFactor = MIN_ALLOWED_CAPACITY_INCREMENT_FACTOR
    /\ numberOfCapacityIncrements = 3
    /\ capacity(Self) = 4
    /\ lastOp = "popFront"
    /\ ~threw
    /\ size = 2
    /\ frontIndex = 0
    /\ cyclicBuffer[1] # Undefined

\* C34: a push made with size < capacity and the pop at the same end that
\* follows it are inverse to each other: the pop does not throw, it returns
\* the item pushed, and the deque is as it was before the push: the same
\* buffer contents, frontIndex, size, capacity and increment count.
SameEndInverse ==
    (/\ running.pc = "popped"
     /\ running.before.size < Length(running.before.cyclicBuffer)
     /\ \/ running.op = "pushBack" /\ lastOp = "popBack"
        \/ running.op = "pushFront" /\ lastOp = "popFront") =>
        /\ ~threw
        /\ returned = running.item
        /\ cyclicBuffer = running.before.cyclicBuffer
        /\ frontIndex = running.before.frontIndex
        /\ size = running.before.size
        /\ capacity(Self) = capacity(running.before)
        /\ numberOfCapacityIncrements =
               running.before.numberOfCapacityIncrements
        /\ Self = running.before

\* A pushFront on a grown, non-empty deque whose front was in slot 0 wrote
\* the item to the last slot, and the popFront that followed has returned.
SameEndInverseWitness ==
    /\ running.pc = "popped"
    /\ running.op = "pushFront"
    /\ lastOp = "popFront"
    /\ running.before.size >= 1
    /\ running.before.size < Length(running.before.cyclicBuffer)
    /\ running.before.frontIndex = 0
    /\ running.before.numberOfCapacityIncrements >= 1
    /\ returned = running.item
    /\ frontIndex = 0
    /\ cyclicBuffer[capacity(Self) - 1] = Undefined

====
